---- MODULE Spec2Model ----
(***************************************************************************)
(* Model of the medical chatbot backend: the two tables of db.py           *)
(* (chat_sessions, chat_messages) and the request handlers of main.py.     *)
(* Handlers run in the framework's thread pool, each on its own database   *)
(* session, so a handler is a sequence of steps, one per commit or         *)
(* provider call, and steps of different calls interleave.                 *)
(*                                                                         *)
(* GET /sessions only reads the sessions table and is left out.            *)
(*                                                                         *)
(* Text is a sequence of one-character strings, so that strip(), lower()   *)
(* and split() are computed and not assumed.                               *)
(***************************************************************************)
EXTENDS Naturals, Sequences, FiniteSets

VARIABLES sessions, messages, calls, title_writes

vars == <<sessions, messages, calls, title_writes>>

(* ------------------------------ bounds --------------------------------- *)

\* Handler calls (of any endpoint) made in one behaviour.
MaxCalls == 3

\* Handler calls in progress at once (the size of the thread pool).
MaxThreads == 2

(* ------------------------------- text ---------------------------------- *)

Whitespace == {" ", "\n", "\t"}

RECURSIVE LStrip(_)
LStrip(s) ==
    IF s # <<>> /\ Head(s) \in Whitespace THEN LStrip(Tail(s)) ELSE s

RECURSIVE RStrip(_)
RStrip(s) ==
    IF s # <<>> /\ s[Len(s)] \in Whitespace
    THEN RStrip(SubSeq(s, 1, Len(s) - 1))
    ELSE s

\* str.strip()
Strip(s) == RStrip(LStrip(s))

\* str.lower(), on the letters the model's texts use
LowerChar(ch) ==
    CASE ch = "N" -> "n"
      [] ch = "E" -> "e"
      [] ch = "W" -> "w"
      [] ch = "C" -> "c"
      [] ch = "H" -> "h"
      [] ch = "A" -> "a"
      [] ch = "T" -> "t"
      [] ch = "F" -> "f"
      [] OTHER -> ch

Lower(s) == [i \in 1..Len(s) |-> LowerChar(s[i])]

\* s.split("\n")[0]
RECURSIVE FirstLine(_)
FirstLine(s) ==
    IF s = <<>> \/ Head(s) = "\n" THEN <<>>
    ELSE <<Head(s)>> \o FirstLine(Tail(s))

\* the leading run of non-whitespace characters of s
RECURSIVE TakeWord(_)
TakeWord(s) ==
    IF s = <<>> \/ Head(s) \in Whitespace THEN <<>>
    ELSE <<Head(s)>> \o TakeWord(Tail(s))

\* str.split(): the maximal runs of non-whitespace characters
RECURSIVE Words(_)
Words(s) ==
    LET t == LStrip(s)
        w == TakeWord(t)
    IN  IF t = <<>> THEN <<>>
        ELSE <<w>> \o Words(SubSeq(t, Len(w) + 1, Len(t)))

\* " ".join(ws)
RECURSIVE Join(_)
Join(ws) ==
    IF ws = <<>> THEN <<>>
    ELSE IF Len(ws) = 1 THEN ws[1]
    ELSE ws[1] \o <<" ">> \o Join(Tail(ws))

(* --------------------------- program constants ------------------------- *)

\* the placeholder title "New Chat"
NEW_CHAT == <<"N", "e", "w", " ", "C", "h", "a", "t">>

\* "new chat", the right-hand side of the comparison in api_send_message
NEW_CHAT_LOWER == <<"n", "e", "w", " ", "c", "h", "a", "t">>

\* the welcome text of api_new_session, abbreviated to its greeting
WELCOME == <<"H", "e", "l", "l", "o", "!">>

\* "keep max 4 words"
MaxTitleWords == 4

\* Python's None where a text is expected (no text has this element)
None == <<"None">>

\* Python's None where a chat_sessions row is expected (ids start at 1)
NoRow == [id |-> 0, title |-> <<>>]

(* ------------------------------- inputs -------------------------------- *)

\* payload.message (an empty text, which pydantic accepts too, is in Init)
UserMessages == { <<"f", "l", "u", "?">> }

\* payload.session_id and the path parameter: the id of a session, or an id
\* that names none (ids are never reused, so the next one stands for all)
SessionIds == 1..(Len(sessions) + 1)

\* What the provider does on the reply call: it answers with a content, or
\* the call raises (the client's exception, or .strip() of a content that is
\* None).
ReplyOutcomes ==
    { [kind |-> "text", content |-> <<" ", "o", "k", "\n">>],
      [kind |-> "raise", content |-> <<>>] }

\* What the provider does on the title call: it answers with the placeholder
\* itself, with five words and a second line, with a blank text, or the call
\* raises.
TitleOutcomes ==
    { [kind |-> "text", content |-> <<"N", "e", "w", " ", "C", "h", "a", "t">>],
      [kind |-> "text",
       content |-> <<" ", "a", " ", "b", " ", " ", "c", " ", "d", " ", "e", "\n", "f">>],
      [kind |-> "text", content |-> <<" ", "\n">>],
      [kind |-> "raise", content |-> <<>>] }

(* ----------------------------- db.py ----------------------------------- *)

\* create_session(db, title): the row is appended; its id is its index
create_session(title) ==
    Append(sessions, [id |-> Len(sessions) + 1, title |-> title])

\* get_session without its filter: .first() of the whole table
get_session_unfiltered(session_id) ==
    IF sessions # <<>> THEN sessions[1] ELSE NoRow

\* get_session(db, session_id)
get_session(session_id) ==
    IF session_id \in DOMAIN sessions THEN sessions[session_id] ELSE NoRow

\* update_session_title(db, session_id, title): the table after the call
update_session_title(session_id, title) ==
    IF get_session(session_id) = NoRow THEN sessions
    ELSE [sessions EXCEPT ![session_id].title = title]

\* add_message as an upsert keyed by the session: the new row replaces the
\* session's rows
add_message_merge(session_id, role, content, by) ==
    Append(SelectSeq(messages, LAMBDA m : m.session_id # session_id),
           [session_id |-> session_id, role |-> role, content |-> content, by |-> by])

\* add_message(db, session_id, role, content): the table after the commit.
\* The field "by" stands for the row's id: it names the call that stored it.
add_message(session_id, role, content, by) ==
    Append(messages,
           [session_id |-> session_id, role |-> role, content |-> content, by |-> by])

\* get_messages without its filter: the messages of every session
get_messages_all(session_id) == messages

\* get_messages(db, session_id): created_at order is the order of the commits
get_messages(session_id) ==
    SelectSeq(messages, LAMBDA m : m.session_id = session_id)

(* ----------------------------- main.py --------------------------------- *)

\* call_llm_for_reply: the text returned for a provider content
call_llm_for_reply(content) == Strip(content)

\* call_llm_for_title without "keep max 4 words"
call_llm_for_title_uncut(content) == Strip(FirstLine(Strip(content)))

\* call_llm_for_title: the title returned for a provider content
call_llm_for_title(content) ==
    LET title == Strip(FirstLine(Strip(content)))
        words == Words(title)
    IN  IF Len(words) > MaxTitleWords
        THEN Join(SubSeq(words, 1, MaxTitleWords))
        ELSE title

\* "not sess.title or sess.title.strip().lower() == 'new chat'"
is_default_title(title) ==
    title = <<>> \/ Lower(Strip(title)) = NEW_CHAT_LOWER

\* the loop of api_send_message: the content of the first message with role
\* "user", None when there is none
RECURSIVE first_user_of(_)
first_user_of(msgs) ==
    IF msgs = <<>> THEN None
    ELSE IF Head(msgs).role = "user" THEN Head(msgs).content
    ELSE first_user_of(Tail(msgs))

\* Python truth of first_user and of title: neither None nor empty
truthy(text) == text # None /\ text # <<>>

(* ------------------------------ state ---------------------------------- *)

\* A handler call.  op, session_id, message are the request; pc is the next
\* step of the handler; status and response are what it returned; sess_title,
\* assistant_text and first_user are the handler's locals.  The other fields
\* record what the call did, for the properties: reply_calls and title_calls
\* count its provider calls, reply and title are the provider's outcomes,
\* fault names the step that failed, done_before is, for a list-messages
\* call, the set of the calls that had returned when it ran.
NewCall(op, session_id, message, done_before) ==
    [op |-> op, session_id |-> session_id, message |-> message,
     pc |-> "start", status |-> "running", response |-> <<>>,
     sess_title |-> None, assistant_text |-> None, first_user |-> None,
     reply_calls |-> 0, title_calls |-> 0,
     reply |-> [kind |-> "unasked", content |-> <<>>],
     title |-> [kind |-> "unasked", content |-> <<>>],
     fault |-> "none",
     done_before |-> done_before]

\* The store outlives the process (init_db only creates missing tables).  At
\* start it is empty, or holds one session of an earlier run: a session that
\* was created and not used, or one whose only send-message call carried an
\* empty text, which left the title alone.  Call 0 stands for the calls of
\* that run.
Init ==
    /\ \/ /\ sessions = <<>>
          /\ messages = <<>>
       \/ /\ sessions = <<[id |-> 1, title |-> NEW_CHAT]>>
          /\ messages = <<[session_id |-> 1, role |-> "assistant",
                           content |-> WELCOME, by |-> 0]>>
       \/ /\ sessions = <<[id |-> 1, title |-> NEW_CHAT]>>
          /\ messages = <<[session_id |-> 1, role |-> "assistant",
                           content |-> WELCOME, by |-> 0],
                         [session_id |-> 1, role |-> "user",
                           content |-> <<>>, by |-> 0],
                         [session_id |-> 1, role |-> "assistant",
                           content |-> <<"o", "k">>, by |-> 0]>>
    /\ calls = <<>>
    /\ title_writes = <<>>

\* the call that starts now
This == Len(calls) + 1

\* a request is accepted while the bound on calls allows it and a thread of
\* the pool is free
CanStart ==
    /\ Len(calls) < MaxCalls
    /\ Cardinality({c \in DOMAIN calls : calls[c].pc # "done"}) < MaxThreads

\* the calls that have returned
Returned == {c \in DOMAIN calls : calls[c].pc = "done"}

\* a call returns
Return(call, status, response) ==
    [call EXCEPT !.pc = "done", !.status = status, !.response = response]

(* ------------------------- POST /new_session --------------------------- *)

\* create_session(db, title="New Chat"); its commit makes the row visible
api_new_session_create ==
    /\ CanStart
    /\ sessions' = create_session(NEW_CHAT)
    /\ calls' = Append(calls,
          [NewCall("new_session", Len(sessions) + 1, <<>>, {}) EXCEPT !.pc = "welcome"])
    /\ UNCHANGED <<messages, title_writes>>

\* add_message(db, sess.id, "assistant", welcome); return.  The commit has
\* expired sess, so sess.title is read again from the table.
api_new_session_welcome(c) ==
    /\ calls[c].op = "new_session"
    /\ calls[c].pc = "welcome"
    /\ messages' = add_message(calls[c].session_id, "assistant", WELCOME, c)
    /\ calls' = [calls EXCEPT ![c] =
          Return(@, "ok", [session_id |-> @.session_id,
                           title |-> get_session(@.session_id).title])]
    /\ UNCHANGED <<sessions, title_writes>>

(* ---------------------- GET /messages/{session_id} --------------------- *)

api_messages(session_id) ==
    /\ CanStart
    /\ calls' = Append(calls,
          IF get_session(session_id) = NoRow
          THEN Return(NewCall("messages", session_id, <<>>, Returned), "not_found", <<>>)
          ELSE Return(NewCall("messages", session_id, <<>>, Returned), "ok",
                      get_messages(session_id)))
    /\ UNCHANGED <<sessions, messages, title_writes>>

(* ------------------------- POST /send_message -------------------------- *)

\* what a successful send-message call returns
send_response(call) ==
    [assistant |-> call.assistant_text, session_id |-> call.session_id]

\* the title path without its try/except: the exception fails the operation
propagate_title_error(call) == Return(call, "error", <<>>)

\* "except Exception: pass", then the return: a failure of the title path
\* is swallowed
swallow_title_error(call) == Return(call, "ok", send_response(call))

\* a retry of the reply call: the handler stays at the call
reply_retried(call) == [call EXCEPT !.pc = "reply"]

\* an exception of call_llm_for_reply is not caught: the operation fails
reply_failed(call) == [Return(call, "error", <<>>) EXCEPT !.fault = "provider"]

\* get_session; 404 if there is no such session; else save the user message
api_send_message_start(session_id, message) ==
    LET sess == get_session(session_id)
        call == NewCall("send_message", session_id, message, {})
    IN  /\ CanStart
        /\ IF sess = NoRow
           THEN /\ calls' = Append(calls, Return(call, "not_found", <<>>))
                /\ UNCHANGED messages
           ELSE /\ messages' = add_message(session_id, "user", message, This)
                /\ calls' = Append(calls,
                      [call EXCEPT !.pc = "reply", !.sess_title = sess.title])
        /\ UNCHANGED <<sessions, title_writes>>

\* "if not sess.title or ...", with sess the row as the table holds it when
\* the assistant message has been saved (that commit has expired sess, so the
\* attribute is loaded again), and the lookup of the first user message
title_check(call) ==
    LET sess == get_session(call.session_id)
        first_user == first_user_of(get_messages(call.session_id))
    IN  IF is_default_title(sess.title)
        THEN IF truthy(first_user)
             THEN [call EXCEPT !.pc = "title", !.first_user = first_user]
             ELSE Return([call EXCEPT !.first_user = first_user], "ok",
                         send_response(call))
        ELSE Return(call, "ok", send_response(call))

\* assistant_text = call_llm_for_reply(...); add_message(..., "assistant",
\* assistant_text); the test of the title.  The provider call touches no
\* table and the test reads the title right after the commit, so the three
\* are one step.
api_send_message_reply(c, outcome) ==
    LET asked == [calls[c] EXCEPT !.reply_calls = @ + 1, !.reply = outcome]
        text == call_llm_for_reply(outcome.content)
    IN  /\ calls[c].op = "send_message"
        /\ calls[c].pc = "reply"
        /\ IF outcome.kind = "text"
           THEN /\ messages' = add_message(calls[c].session_id, "assistant", text, c)
                /\ calls' = [calls EXCEPT ![c] =
                      title_check([asked EXCEPT !.assistant_text = text])]
           ELSE /\ calls' = [calls EXCEPT ![c] = reply_failed(asked)]
                /\ UNCHANGED messages
        /\ UNCHANGED <<sessions, title_writes>>

\* title = call_llm_for_title(first_user); if title: update_session_title;
\* return
api_send_message_title(c, outcome) ==
    LET asked == [calls[c] EXCEPT !.title_calls = @ + 1, !.title = outcome]
        title == call_llm_for_title(outcome.content)
    IN  /\ calls[c].op = "send_message"
        /\ calls[c].pc = "title"
        /\ IF outcome.kind = "text"
           THEN /\ calls' = [calls EXCEPT ![c] =
                      Return(asked, "ok", send_response(asked))]
                /\ IF truthy(title)
                   THEN /\ sessions' = update_session_title(calls[c].session_id, title)
                        /\ title_writes' = Append(title_writes,
                              [session_id |-> calls[c].session_id,
                               title |-> title, by |-> c])
                   ELSE UNCHANGED <<sessions, title_writes>>
           ELSE /\ calls' = [calls EXCEPT ![c] = swallow_title_error(asked)]
                /\ UNCHANGED <<sessions, title_writes>>
        /\ UNCHANGED messages

\* The provider has answered, and the store rejects the commit of the
\* assistant message (it is down, the connection is lost): add_message
\* raises and nothing catches it.
api_send_message_append_fails(c, outcome) ==
    LET asked == [calls[c] EXCEPT !.reply_calls = @ + 1, !.reply = outcome,
                                  !.assistant_text = call_llm_for_reply(outcome.content)]
    IN  /\ calls[c].op = "send_message"
        /\ calls[c].pc = "reply"
        /\ outcome.kind = "text"
        /\ calls' = [calls EXCEPT ![c] =
              [Return(asked, "error", <<>>) EXCEPT !.fault = "append"]]
        /\ UNCHANGED <<sessions, messages, title_writes>>

(* --------------------------- specifications ---------------------------- *)

Next ==
    \/ api_new_session_create
    \/ \E c \in DOMAIN calls : api_new_session_welcome(c)
    \/ \E s \in SessionIds : api_messages(s)
    \/ \E s \in SessionIds, m \in UserMessages : api_send_message_start(s, m)
    \/ \E c \in DOMAIN calls, o \in ReplyOutcomes : api_send_message_reply(c, o)
    \/ \E c \in DOMAIN calls, o \in TitleOutcomes : api_send_message_title(c, o)

\* The handlers over a store that accepts every commit.
Spec == Init /\ [][Next]_vars

NextFault ==
    \/ Next
    \/ \E c \in DOMAIN calls, o \in ReplyOutcomes : api_send_message_append_fails(c, o)

\* The handlers over a store that may fail when the assistant message is saved.
SpecFault == Init /\ [][NextFault]_vars

(* ------------------------- notions of the claims ----------------------- *)

SendCalls == {c \in DOMAIN calls : calls[c].op = "send_message"}

\* the messages call c has stored, oldest first, without their ids
StoredBy(msgs, c) ==
    LET mine == SelectSeq(msgs, LAMBDA m : m.by = c)
    IN  [i \in 1..Len(mine) |->
            [session_id |-> mine[i].session_id, role |-> mine[i].role,
             content |-> mine[i].content]]

\* the messages of session s, oldest first, without their ids
SessionRows(msgs, s) ==
    LET its == SelectSeq(msgs, LAMBDA m : m.session_id = s)
    IN  [i \in 1..Len(its) |->
            [session_id |-> its[i].session_id, role |-> its[i].role,
             content |-> its[i].content]]

\* the title writes of call c
WritesBy(log, c) == {i \in DOMAIN log : log[i].by = c}

\* the title writes to session s
WritesTo(log, s) == {i \in DOMAIN log : log[i].session_id = s}

UserRow(call) ==
    [session_id |-> call.session_id, role |-> "user", content |-> call.message]

AssistantRow(call) ==
    [session_id |-> call.session_id, role |-> "assistant",
     content |-> call.assistant_text]

\* call c returns in this step
Returns(c) == calls[c].pc # "done" /\ calls'[c].pc = "done"

(* ------------------------------- C1 ------------------------------------ *)

C2_UnknownSessionNotFound ==
    [][ /\ ( /\ Len(calls') = Len(calls) + 1
             /\ calls'[This].op = "send_message"
             /\ calls'[This].session_id \notin DOMAIN sessions )
           => /\ calls'[This].pc = "done"
              /\ calls'[This].status = "not_found"
              /\ messages' = messages
              /\ sessions' = sessions
              /\ title_writes' = title_writes
        /\ \A c \in DOMAIN calls' :
             (calls'[c].op = "send_message" /\ calls'[c].status = "not_found")
             => /\ calls'[c].reply_calls = 0
                /\ calls'[c].title_calls = 0
                /\ StoredBy(messages', c) = <<>>
                /\ WritesBy(title_writes', c) = {}
      ]_vars

C2_Witness ==
    \E c \in SendCalls :
        /\ calls[c].status = "not_found"
        /\ calls[c].session_id \notin DOMAIN sessions
        /\ sessions # <<>>

(* ------------------------------- C3 ------------------------------------ *)

\* C3: when a create-session call returns, its session has the placeholder
\* title and exactly one message, the welcome message with role "assistant",
\* and the returned title is the placeholder.
C3_NewSessionHasOnlyWelcome ==
    [][ \A k \in DOMAIN calls :
          (calls[k].op = "new_session" /\ Returns(k))
          => LET s == calls[k].session_id
             IN  /\ calls'[k].status = "ok"
                 /\ sessions'[s].title = NEW_CHAT
                 /\ calls'[k].response = [session_id |-> s, title |-> NEW_CHAT]
                 /\ SessionRows(messages', s) =
                      <<[session_id |-> s, role |-> "assistant", content |-> WELCOME]>>
      ]_vars

(* ------------------------------- C4 ------------------------------------ *)

\* the first n elements of a sequence, all of it when it is shorter
Take(seq, n) == SubSeq(seq, 1, IF Len(seq) < n THEN Len(seq) ELSE n)

LowerWords(ws) == [i \in 1..Len(ws) |-> Lower(ws[i])]

C6_TitleWrittenAtMostOnce ==
    \A s \in DOMAIN sessions : Cardinality(WritesTo(title_writes, s)) <= 1

(* ------------------------------- C7 ------------------------------------ *)

TitlePathFailed(call) ==
    \/ call.title.kind = "raise"
    \/ call.title.kind = "text" /\ call_llm_for_title(call.title.content) = <<>>

\* C8: whatever the title call does, the send-message call that made it
\* returns successfully with the reply text it had and its session id, and
\* has stored its user message and that reply; when the title call raises
\* or returns an empty title, no title is written.
C8_TitlePathDoesNotChangeResult ==
    [][ \A c \in DOMAIN calls :
          (calls[c].op = "send_message" /\ calls[c].pc = "title" /\ Returns(c))
          => /\ calls'[c].status = "ok"
             /\ calls'[c].response = [assistant |-> calls[c].assistant_text,
                                      session_id |-> calls[c].session_id]
             /\ calls[c].assistant_text = Strip(calls[c].reply.content)
             /\ StoredBy(messages', c) = <<UserRow(calls[c]), AssistantRow(calls[c])>>
             /\ TitlePathFailed(calls'[c])
                  => sessions' = sessions /\ title_writes' = title_writes
      ]_vars

C8_Witness ==
    /\ \E c \in SendCalls :
          calls[c].pc = "done" /\ calls[c].status = "ok" /\ calls[c].title.kind = "raise"
    /\ \E c \in SendCalls :
          /\ calls[c].pc = "done" /\ calls[c].status = "ok"
          /\ calls[c].title.kind = "text"
          /\ call_llm_for_title(calls[c].title.content) = <<>>
    /\ \E c \in SendCalls :
          calls[c].pc = "done" /\ WritesBy(title_writes, c) # {}

(* ------------------------------- C9 ------------------------------------ *)

\* list-messages call r ran on a session that a create-session call of this
\* run had made, after that call and one send-message call to the session
\* had returned, the latter successfully, and no other send-message call to
\* the session had begun
AfterCreateAndOneSend(r) ==
    LET s == calls[r].session_id
        sends == {c \in SendCalls : c < r /\ calls[c].session_id = s}
    IN  /\ calls[r].op = "messages"
        /\ calls[r].status = "ok"
        /\ \E k \in calls[r].done_before :
              calls[k].op = "new_session" /\ calls[k].session_id = s
        /\ Cardinality(sends) = 1
        /\ \A c \in sends : c \in calls[r].done_before /\ calls[c].status = "ok"

\* C9, as claimed: list messages then returns 4 messages.
C9_FourMessages ==
    \A r \in DOMAIN calls : AfterCreateAndOneSend(r) => Len(calls[r].response) = 4

\* C9, amended: list messages then returns 3 messages: the welcome message,
\* the user message and the assistant reply.
C9_ThreeMessages ==
    \A r \in DOMAIN calls :
        AfterCreateAndOneSend(r) =>
            /\ Len(calls[r].response) = 3
            /\ {calls[r].response[i].role : i \in 1..3} = {"assistant", "user"}
            /\ \A i \in 1..3 : calls[r].response[i].session_id = calls[r].session_id

C9_Witness ==
    \E r \in DOMAIN calls : AfterCreateAndOneSend(r) /\ Len(calls[r].response) = 3

(* ------------------------------- C10 ----------------------------------- *)

\* C10: a send-message call whose reply call raised, or whose assistant
\* message could not be saved, has failed; it has made one reply call and no
\* title call, has stored its user message and nothing else, and has written
\* no title.
C10_FailureAfterUserMessage ==
    \A c \in SendCalls :
        (calls[c].reply.kind = "raise" \/ calls[c].fault = "append")
        => /\ calls[c].pc = "done"
           /\ calls[c].status = "error"
           /\ calls[c].reply_calls = 1
           /\ calls[c].title_calls = 0
           /\ StoredBy(messages, c) = <<UserRow(calls[c])>>
           /\ WritesBy(title_writes, c) = {}

C10_Witness ==
    /\ \E c \in SendCalls : calls[c].reply.kind = "raise" /\ calls[c].status = "error"
    /\ \E c \in SendCalls : calls[c].fault = "append" /\ calls[c].status = "error"

====
